---- MODULE Spec2Model ----
(***************************************************************************)
(* Model of the bulk seeder of anasdevv/partitioning-demo                  *)
(* (src/seeds/reviews_seed.js): seed(knex) generates rows of random        *)
(* reviews and inserts them into the table 'reviews' batch by batch.       *)
(*                                                                         *)
(* The loader is one sequential async function; the table behind           *)
(* knex('reviews').insert(rows) is a separate process that settles each    *)
(* insert on its own, so an insert is two steps: the call (SubmitInsert)    *)
(* and its settlement (SinkCommit / SinkReject), with the loader suspended  *)
(* on the await in between.                                                *)
(***************************************************************************)
EXTENDS Integers, Sequences, FiniteSets, Bags, TLC

\* ---------------------------------------------------------------- bounds
\* Largest totalRows and batchSize the model tries.  The source fixes them
\* at 1_000_000_000 and 10000; the loop's shape does not depend on the size.
MaxRows == 3
MaxBatchSize == 2

\* Iterations after which a loop that never ends is cut off.  One more than
\* the longest loop of a positive configuration (totalRows batches of 1).
LoopCap == MaxRows + 1

\* ------------------------------------------------------ program constants
ProductIds == 1000
UserIds == 100000
Ratings == 5

VARIABLES
  totalRows,     \* const totalRows
  batchSize,     \* const batchSize
  totalBatches,  \* const totalBatches, a JS number
  pc,            \* where seed is: start, loop, fill, await, done, failed
  batch,         \* let batch
  i,             \* let i
  rows,          \* const rows, the batch buffer: the array line 10 bound last
  pending,       \* inserts called and not yet settled, oldest first
  result,        \* settlement of the awaited insert: none, ok, err
  sink,          \* the rows of table reviews, a bag
  calls,         \* every insert call the sink has received, in order
  out,           \* the lines written by console.log
  run,           \* which invocation of seed this is
  before,        \* row count of the table when this invocation began
  results        \* one entry per finished invocation

vars == <<totalRows, batchSize, totalBatches, pc, batch, i, rows, pending,
          result, sink, calls, out, run, before, results>>

\* The partitioning migration (up and down) and the schema it works on.
VARIABLES
  mpc,           \* where the migration is: idle, up_parent, up_part, up_done,
                 \* up_failed, down_part, down_done, down_failed
  mi,            \* let i of the loop of up or of down
  reviews,       \* the rows of table reviews with the ids the table gave them
  original,      \* reviews as it was before any migration ran
  hash,          \* PostgreSQL's partition hash of each product_id
  parent,        \* whether table reviews_partitioned exists
  parts,         \* the existing tables reviews_partitioned_p<i>, by i
  merr,          \* why the last statement raised: none, exists, missing,
                 \* overlap, nopartition, duplicate, external
  began,         \* the schema when the current up or down was called
  mout           \* the lines console.log wrote in the current up or down

mvars == <<mpc, mi, reviews, original, hash, parent, parts, merr, began, mout>>

\* ------------------------------------------------------------- JS numbers
\* A JS number is a finite integer, +Infinity, -Infinity or NaN.
Num(n) == [k |-> "num", v |-> n]
PosInf == [k |-> "inf", v |-> 1]
NegInf == [k |-> "-inf", v |-> 0 - 1]
NaN == [k |-> "nan", v |-> 0]
Undefined == [k |-> "undefined", v |-> 0]

\* ceil(a / b) for b > 0.
CeilPos(a, b) == 0 - ((0 - a) \div b)

\* Variant of MathCeilDiv that rounds down (Math.floor for Math.ceil).
MathCeilDivFloor(a, b) ==
  IF b = 0 THEN (IF a > 0 THEN PosInf ELSE IF a < 0 THEN NegInf ELSE NaN)
  ELSE IF b > 0 THEN Num(a \div b) ELSE Num((0 - a) \div (0 - b))

\* Math.ceil(a / b): division by zero gives an infinity or NaN.
MathCeilDiv(a, b) ==
  IF b = 0 THEN (IF a > 0 THEN PosInf ELSE IF a < 0 THEN NegInf ELSE NaN)
  ELSE IF b > 0 THEN Num(CeilPos(a, b)) ELSE Num(CeilPos(0 - a, 0 - b))

\* n <= t, as JsLess below.
JsLessOrEqual(n, t) ==
  CASE t.k = "num" -> n <= t.v
    [] t.k = "inf" -> TRUE
    [] OTHER -> FALSE

\* n < t for an integer n and a JS number t; every comparison with NaN is false.
JsLess(n, t) ==
  CASE t.k = "num" -> n < t.v
    [] t.k = "inf" -> TRUE
    [] OTHER -> FALSE

\* ------------------------------------------------------- record generator
\* One sample of Math.random(): 0 stands for 0.0, 1 for the largest double
\* below 1.  Math.floor(Math.random() * n) is then 0 or n - 1.
RandomFloor(u, n) == IF u = 0 THEN 0 ELSE n - 1

\* The three draws of one row: a pairwise cover of the two ends of each draw.
RandomDraws == {<<0, 0, 0>>, <<0, 1, 1>>, <<1, 0, 1>>, <<1, 1, 0>>}

\* new Date(): the time of the call, one opaque timestamp.
NewDate == "Date"

\* Variant of MakeRow without the + 1 of lines 13-15.
MakeRowNoOffset(d) ==
  [product_id |-> RandomFloor(d[1], ProductIds),
   user_id    |-> RandomFloor(d[2], UserIds),
   rating     |-> RandomFloor(d[3], Ratings),
   comment    |-> "Sample review comment",
   created_at |-> NewDate]

\* Lines 12-18: the object pushed for one row.
MakeRow(d) ==
  [product_id |-> RandomFloor(d[1], ProductIds) + 1,
   user_id    |-> RandomFloor(d[2], UserIds) + 1,
   rating     |-> RandomFloor(d[3], Ratings) + 1,
   comment    |-> "Sample review comment",
   created_at |-> NewDate]

\* ------------------------------------------------------------------ sink
Range(s) == {s[j] : j \in DOMAIN s}

\* The rows of a batch as a bag.
SeqToBag(s) == [r \in Range(s) |-> Cardinality({j \in DOMAIN s : s[j] = r})]

\* Variant of InsertRows for a table with a unique key over the generated
\* columns, where a row already present is skipped.
InsertRowsDedup(table, batchRows) == SetToBag(BagToSet(table) \cup Range(batchRows))

\* INSERT appends every row of the batch; the table has no unique key on
\* the generated columns (id is assigned by the table).
InsertRows(table, batchRows) == table (+) SeqToBag(batchRows)

\* calls with entry j settled as st.
Settle(j, st) == [calls EXCEPT ![j].st = st]

\* ------------------------------------------------------------------ lines
Line(msg, n, of) == [run |-> run, msg |-> msg, n |-> n, of |-> of]

\* ------------------------------------------------------------ partitions
Partitions == 4
Modulus == 4

\* The product ids a generated row can carry.
ProductIdsSeen == {MakeRow(d).product_id : d \in RandomDraws}

\* No function with an empty domain but this one.
NoTables == [t \in {} |-> [modulus |-> 0, remainder |-> 0, rows |-> {}]]

\* No migration has run: neither reviews_partitioned nor a partition exists.
MigrationIdle ==
  /\ mpc = "idle"
  /\ mi = 0
  /\ reviews = {}
  /\ original = {}
  /\ hash = [p \in ProductIdsSeen |-> 0]
  /\ parent = FALSE
  /\ parts = NoTables
  /\ merr = "none"
  /\ began = [parent |-> FALSE, parts |-> {}]
  /\ mout = <<>>

\* ------------------------------------------------------------------- Init
Init ==
  /\ MigrationIdle
  /\ totalRows \in (0 - 1)..MaxRows
  /\ batchSize \in (0 - 1)..MaxBatchSize
  /\ totalBatches = Undefined
  /\ pc = "start"
  /\ batch = 0
  /\ i = 0
  /\ rows = <<>>
  /\ pending = <<>>
  /\ result = "none"
  /\ sink = EmptyBag
  /\ calls = <<>>
  /\ out = <<>>
  /\ run = 1
  /\ before = 0
  /\ results = <<>>

\* ---------------------------------------------------------------- actions
\* Lines 3-9: compute totalBatches, announce, let batch = 0.
Start ==
  /\ pc = "start"
  /\ totalBatches' = MathCeilDiv(totalRows, batchSize)
  /\ out' = Append(out, Line("Seeding", totalRows, totalBatches'))
  /\ batch' = 0
  /\ pc' = "loop"
  /\ UNCHANGED <<totalRows, batchSize, i, rows, pending, result, sink, calls,
                 run, before, results>>
  /\ UNCHANGED mvars

\* Variant of LoopCond with <= for <.
LoopCondInclusive == JsLessOrEqual(batch, totalBatches)

\* The loop condition of line 9.
LoopCond == JsLess(batch, totalBatches)

\* Variant of LoopEnter for a buffer declared outside the loop: it is not
\* emptied between batches.
LoopEnterKeepRows ==
  /\ pc = "loop"
  /\ LoopCond
  /\ batch < LoopCap
  /\ i' = 0
  /\ pc' = "fill"
  /\ UNCHANGED <<totalRows, batchSize, totalBatches, batch, rows, pending, result,
                 sink, calls, out, run, before, results>>
  /\ UNCHANGED mvars

\* Lines 9-11: the condition holds; const rows = [], let i = 0.
LoopEnter ==
  /\ pc = "loop"
  /\ LoopCond
  /\ batch < LoopCap
  /\ rows' = <<>>
  /\ i' = 0
  /\ pc' = "fill"
  /\ UNCHANGED <<totalRows, batchSize, totalBatches, batch, pending, result,
                 sink, calls, out, run, before, results>>
  /\ UNCHANGED mvars

\* Lines 9, 24: the condition fails; announce completion and return.
LoopExit ==
  /\ pc = "loop"
  /\ ~LoopCond
  /\ out' = Append(out, Line("Seeding completed!", 0, totalBatches))
  /\ pc' = "done"
  /\ results' = Append(results, [ok |-> TRUE, added |-> BagCardinality(sink) - before])
  /\ UNCHANGED <<totalRows, batchSize, totalBatches, batch, i, rows, pending,
                 result, sink, calls, run, before>>
  /\ UNCHANGED mvars

\* Variant of FillCond that stops the last batch at totalRows rows.
FillCondClamped == i < batchSize /\ batch * batchSize + i < totalRows

\* The condition of the inner loop, line 11.
FillCond == i < batchSize

\* Lines 11-19: one iteration of the inner loop pushes one generated row.
Fill ==
  /\ pc = "fill"
  /\ FillCond
  /\ \E d \in RandomDraws : rows' = Append(rows, MakeRow(d))
  /\ i' = i + 1
  /\ UNCHANGED <<totalRows, batchSize, totalBatches, pc, batch, pending, result,
                 sink, calls, out, run, before, results>>
  /\ UNCHANGED mvars

\* Variant of SubmitInsert without the await: seed logs the batch and goes
\* on while the insert is still in flight.
SubmitInsertNoAwait ==
  /\ pc = "fill"
  /\ ~FillCond
  /\ calls' = Append(calls, [run |-> run, batch |-> batch, n |-> Len(rows), st |-> "pending"])
  /\ pending' = Append(pending, [call |-> Len(calls) + 1, rows |-> rows])
  /\ out' = Append(out, Line("Inserted batch", batch + 1, totalBatches))
  /\ batch' = batch + 1
  /\ pc' = "loop"
  /\ UNCHANGED <<totalRows, batchSize, totalBatches, i, rows, result, sink,
                 run, before, results>>
  /\ UNCHANGED mvars

\* Lines 11, 20: the inner loop is over; knex('reviews').insert(rows) is
\* called and seed suspends on the await.
SubmitInsert ==
  /\ pc = "fill"
  /\ ~FillCond
  /\ calls' = Append(calls, [run |-> run, batch |-> batch, n |-> Len(rows), st |-> "pending"])
  /\ pending' = Append(pending, [call |-> Len(calls) + 1, rows |-> rows])
  /\ result' = "none"
  /\ pc' = "await"
  /\ UNCHANGED <<totalRows, batchSize, totalBatches, batch, i, rows, sink, out,
                 run, before, results>>
  /\ UNCHANGED mvars

\* The table accepts the oldest pending insert: its rows are stored.
SinkCommit ==
  /\ pending # <<>>
  /\ sink' = InsertRows(sink, Head(pending).rows)
  /\ calls' = Settle(Head(pending).call, "ok")
  /\ pending' = Tail(pending)
  /\ result' = "ok"
  /\ UNCHANGED <<totalRows, batchSize, totalBatches, pc, batch, i, rows, out,
                 run, before, results>>
  /\ UNCHANGED mvars

\* The table rejects the oldest pending insert: nothing is stored.
SinkReject ==
  /\ pending # <<>>
  /\ calls' = Settle(Head(pending).call, "err")
  /\ pending' = Tail(pending)
  /\ result' = "err"
  /\ UNCHANGED <<totalRows, batchSize, totalBatches, pc, batch, i, rows, sink,
                 out, run, before, results>>
  /\ UNCHANGED mvars

\* Lines 20-22, 9: the await returns; log the batch, leave the block, batch++.
Resume ==
  /\ pc = "await"
  /\ result = "ok"
  /\ out' = Append(out, Line("Inserted batch", batch + 1, totalBatches))
  /\ batch' = batch + 1
  /\ result' = "none"
  /\ pc' = "loop"
  /\ UNCHANGED <<totalRows, batchSize, totalBatches, i, rows, pending, sink,
                 calls, run, before, results>>
  /\ UNCHANGED mvars

\* Variant of Throw that catches the error and goes on with the next batch.
ThrowSwallowed ==
  /\ pc = "await"
  /\ result = "err"
  /\ batch' = batch + 1
  /\ result' = "none"
  /\ pc' = "loop"
  /\ UNCHANGED <<totalRows, batchSize, totalBatches, i, rows, pending, sink,
                 calls, out, run, before, results>>
  /\ UNCHANGED mvars

\* Variant of Throw that logs the batch on the way out (a finally block).
ThrowLogged ==
  /\ pc = "await"
  /\ result = "err"
  /\ out' = Append(out, Line("Inserted batch", batch + 1, totalBatches))
  /\ result' = "none"
  /\ pc' = "failed"
  /\ results' = Append(results, [ok |-> FALSE, added |-> BagCardinality(sink) - before])
  /\ UNCHANGED <<totalRows, batchSize, totalBatches, batch, i, rows, pending,
                 sink, calls, run, before>>
  /\ UNCHANGED mvars

\* Variant of Throw for a catch around the loop that reports the error and
\* falls through to the last console.log.
ThrowThenCompleted ==
  /\ pc = "await"
  /\ result = "err"
  /\ out' = Append(out, Line("Seeding completed!", 0, totalBatches))
  /\ result' = "none"
  /\ pc' = "done"
  /\ results' = Append(results, [ok |-> TRUE, added |-> BagCardinality(sink) - before])
  /\ UNCHANGED <<totalRows, batchSize, totalBatches, batch, i, rows, pending,
                 sink, calls, run, before>>
  /\ UNCHANGED mvars

\* Line 20: the await throws; seed has no try/catch, so its promise rejects.
Throw ==
  /\ pc = "await"
  /\ result = "err"
  /\ result' = "none"
  /\ pc' = "failed"
  /\ results' = Append(results, [ok |-> FALSE, added |-> BagCardinality(sink) - before])
  /\ UNCHANGED <<totalRows, batchSize, totalBatches, batch, i, rows, pending,
                 sink, calls, out, run, before>>
  /\ UNCHANGED mvars

\* seed is invoked a second time with the same configuration on the same table.
Reseed ==
  /\ pc \in {"done", "failed"}
  /\ run < 2
  /\ run' = run + 1
  /\ before' = BagCardinality(sink)
  /\ totalBatches' = Undefined
  /\ pc' = "start"
  /\ batch' = 0
  /\ i' = 0
  /\ rows' = <<>>
  /\ result' = "none"
  /\ UNCHANGED <<totalRows, batchSize, pending, sink, calls, out, results>>
  /\ UNCHANGED mvars

Next ==
  \/ Start
  \/ LoopEnter
  \/ LoopExit
  \/ Fill
  \/ SubmitInsert
  \/ SinkCommit
  \/ SinkReject
  \/ Resume
  \/ Throw
  \/ Reseed

Spec == Init /\ [][Next]_<<vars, mvars>>

\* The steps of seed itself, and those of the table.
SeedStep == Start \/ LoopEnter \/ LoopExit \/ Fill \/ SubmitInsert \/ Resume \/ Throw
SinkStep == SinkCommit \/ SinkReject

\* seed runs on whenever it is not suspended, and the table settles every
\* insert it was given.  Nothing makes a caller invoke seed again.
SpecLive ==
  /\ Init
  /\ [][Next]_<<vars, mvars>>
  /\ WF_<<vars, mvars>>(SeedStep)
  /\ WF_<<vars, mvars>>(SinkStep)

\* ============================================================ migration
\* up and down of the partitioning migration.  Every knex.raw is one
\* statement the database runs on its own; any of them can raise, for a
\* reason of its own or because the connection is lost.

\* Largest number of rows of table reviews the migration is run on.
MaxReviews == 2

\* The values PostgreSQL's hash takes here: enough for every remainder twice.
HashValues == 0..(2 * Modulus - 1)

\* Row r of the seeder as stored under id n.
Stored(n, r) ==
  [id |-> n, product_id |-> r.product_id, user_id |-> r.user_id,
   rating |-> r.rating, comment |-> r.comment, created_at |-> r.created_at]

\* Every content of table reviews of at most MaxReviews seeded rows.
ReviewTables ==
  UNION {{{Stored(n, MakeRow(f[n])) : n \in 1..k} : f \in [1..k -> RandomDraws]} :
         k \in 0..MaxReviews}

\* The seeder is at rest while a migration runs.
SeederIdle ==
  /\ totalRows = 0
  /\ batchSize = 0
  /\ totalBatches = Undefined
  /\ pc = "start"
  /\ batch = 0
  /\ i = 0
  /\ rows = <<>>
  /\ pending = <<>>
  /\ result = "none"
  /\ sink = EmptyBag
  /\ calls = <<>>
  /\ out = <<>>
  /\ run = 1
  /\ before = 0
  /\ results = <<>>

MigrationInit ==
  /\ SeederIdle
  /\ reviews \in ReviewTables
  /\ original = reviews
  /\ hash \in [ProductIdsSeen -> HashValues]
  /\ mpc = "idle"
  /\ mi = 0
  /\ parent = FALSE
  /\ parts = NoTables
  /\ merr = "none"
  /\ began = [parent |-> FALSE, parts |-> {}]
  /\ mout = <<>>

\* No migration function is running.
AtRest == mpc \in {"idle", "up_done", "up_failed", "down_done", "down_failed"}

Schema == [parent |-> parent, parts |-> DOMAIN parts]

\* The statement at hand raises with reason why; up or down rejects.
Raise(where, why) ==
  /\ mpc' = where
  /\ merr' = why
  /\ UNCHANGED <<mi, reviews, original, hash, parent, parts, began, mout>>

\* ------------------------------------------------------------------- up
\* Line 2: up is called.
UpStart ==
  /\ AtRest
  /\ mpc' = "up_parent"
  /\ mi' = 0
  /\ merr' = "none"
  /\ began' = Schema
  /\ mout' = <<>>
  /\ UNCHANGED <<reviews, original, hash, parent, parts>>
  /\ UNCHANGED vars

\* Lines 3-15: CREATE TABLE reviews_partitioned; let i = 0.
UpCreateParent ==
  /\ mpc = "up_parent"
  /\ IF parent
       THEN Raise("up_failed", "exists")
       ELSE /\ parent' = TRUE
            /\ mi' = 0
            /\ mpc' = "up_part"
            /\ UNCHANGED <<reviews, original, hash, parts, merr, began, mout>>
  /\ UNCHANGED vars

\* Variant of UpLoopCond that stops one partition early.
UpLoopCondShort == mi < Partitions - 1

\* The loop condition of line 15.
UpLoopCond == mi < Partitions

\* Line 18: FOR VALUES WITH (MODULUS 4, REMAINDER n).
PartitionBound(n) == [modulus |-> Modulus, remainder |-> n]

\* Two hash bounds claim a common hash value.
Overlap(a, b) ==
  \E h \in HashValues : h % a.modulus = a.remainder /\ h % b.modulus = b.remainder

\* Lines 15-20: CREATE TABLE reviews_partitioned_p<i> PARTITION OF
\* reviews_partitioned; i++.
UpCreatePartition ==
  /\ mpc = "up_part"
  /\ UpLoopCond
  /\ IF ~parent THEN Raise("up_failed", "missing")
     ELSE IF mi \in DOMAIN parts THEN Raise("up_failed", "exists")
     ELSE IF \E t \in DOMAIN parts : Overlap(parts[t], PartitionBound(mi))
       THEN Raise("up_failed", "overlap")
     ELSE /\ parts' = [t \in DOMAIN parts \cup {mi} |->
                         IF t = mi
                           THEN [modulus |-> PartitionBound(mi).modulus,
                                 remainder |-> PartitionBound(mi).remainder,
                                 rows |-> {}]
                           ELSE parts[t]]
          /\ mi' = mi + 1
          /\ UNCHANGED <<mpc, reviews, original, hash, parent, merr, began, mout>>
  /\ UNCHANGED vars

\* The partitions whose bound takes row r.
Targets(r) ==
  {t \in DOMAIN parts : hash[r.product_id] % parts[t].modulus = parts[t].remainder}

\* The rows of reviews_partitioned: those of all its partitions.
Partitioned == UNION {parts[t].rows : t \in DOMAIN parts}

\* INSERT INTO reviews_partitioned SELECT ... FROM reviews: the rows of
\* partition t afterwards.
CopiedInto(t) == parts[t].rows \cup {r \in reviews : t \in Targets(r)}

\* Lines 15, 22-29: the loop is over; copy reviews into reviews_partitioned
\* in one statement and report success.
UpCopy ==
  /\ mpc = "up_part"
  /\ ~UpLoopCond
  /\ IF ~parent THEN Raise("up_failed", "missing")
     ELSE IF \E r \in reviews : Targets(r) = {} THEN Raise("up_failed", "nopartition")
     ELSE IF \E r \in reviews : \E q \in Partitioned :
               q.id = r.id /\ q.product_id = r.product_id
       THEN Raise("up_failed", "duplicate")
     ELSE /\ parts' = [t \in DOMAIN parts |-> [parts[t] EXCEPT !.rows = CopiedInto(t)]]
          /\ mout' = <<"Copying data from reviews", "Partitioned table created">>
          /\ mpc' = "up_done"
          /\ UNCHANGED <<mi, reviews, original, hash, parent, merr, began>>
  /\ UNCHANGED vars

\* The statement up is about to run raises because the connection is lost.
UpConnectionLost ==
  /\ mpc \in {"up_parent", "up_part"}
  /\ Raise("up_failed", "external")
  /\ UNCHANGED vars

\* ----------------------------------------------------------------- down
\* Lines 32-34: down is called; let i = 0.
DownStart ==
  /\ AtRest
  /\ mpc' = "down_part"
  /\ mi' = 0
  /\ merr' = "none"
  /\ began' = Schema
  /\ mout' = <<"Dropping partitioned table">>
  /\ UNCHANGED <<reviews, original, hash, parent, parts>>
  /\ UNCHANGED vars

\* Variant of DropRaises for DROP TABLE without IF EXISTS.
DropRaisesIfMissing(exists) == ~exists

\* DROP TABLE IF EXISTS raises for no table, whether it exists or not.
DropRaises(exists) == FALSE

\* Lines 34-36: DROP TABLE IF EXISTS reviews_partitioned_p<i>; i++.
DownDropPartition ==
  /\ mpc = "down_part"
  /\ mi < Partitions
  /\ IF DropRaises(mi \in DOMAIN parts) THEN Raise("down_failed", "missing")
     ELSE /\ parts' = [t \in DOMAIN parts \ {mi} |-> parts[t]]
          /\ mi' = mi + 1
          /\ UNCHANGED <<mpc, reviews, original, hash, parent, merr, began, mout>>
  /\ UNCHANGED vars

\* Lines 34, 37-38: the loop is over; DROP TABLE IF EXISTS
\* reviews_partitioned, which takes the partitions still attached with it.
DownDropParent ==
  /\ mpc = "down_part"
  /\ ~(mi < Partitions)
  /\ IF DropRaises(parent) THEN Raise("down_failed", "missing")
     ELSE /\ parent' = FALSE
          /\ parts' = NoTables
          /\ mpc' = "down_done"
          /\ UNCHANGED <<mi, reviews, original, hash, merr, began, mout>>
  /\ UNCHANGED vars

\* The statement down is about to run raises because the connection is lost.
DownConnectionLost ==
  /\ mpc = "down_part"
  /\ Raise("down_failed", "external")
  /\ UNCHANGED vars

MigrationNext ==
  \/ UpStart
  \/ UpCreateParent
  \/ UpCreatePartition
  \/ UpCopy
  \/ UpConnectionLost
  \/ DownStart
  \/ DownDropPartition
  \/ DownDropParent
  \/ DownConnectionLost

SpecMigration == MigrationInit /\ [][MigrationNext]_<<vars, mvars>>

\* ------------------------------------------------------------ properties
\* totalRows and batchSize are both positive.
Valid == totalRows > 0 /\ batchSize > 0

\* The insert calls and the console lines of the current invocation.
RunCalls == SelectSeq(calls, LAMBDA c : c.run = run)
Progress == SelectSeq(out, LAMBDA l : l.run = run /\ l.msg = "Inserted batch")
OkCalls == SelectSeq(RunCalls, LAMBDA c : c.st = "ok")

\* Rows the table has gained since the current invocation began.
Gained == BagCardinality(sink) - before

RECURSIVE SumN(_)
SumN(cs) == IF cs = <<>> THEN 0 ELSE Head(cs).n + SumN(Tail(cs))

\* The least number of batches of batchSize rows that hold totalRows rows.
LeastBatches ==
  CHOOSE n \in 0..totalRows :
    /\ n * batchSize >= totalRows
    /\ (n - 1) * batchSize < totalRows

\* C1: with positive totalRows and batchSize, seed never calls insert more
\* than ceil(totalRows / batchSize) times, and a run in which every insert
\* succeeded has called it exactly that many times.
C1_BatchCount ==
  Valid =>
    /\ Len(RunCalls) <= LeastBatches
    /\ pc = "done" => Len(RunCalls) = LeastBatches /\ Len(OkCalls) = LeastBatches

C1_Witness ==
  /\ totalRows = 3 /\ batchSize = 2
  /\ pc = "done"
  /\ Len(RunCalls) = 2

\* C2: batches are submitted once each in index order; a rejected insert is
\* the last call of the run, it is not retried and no later batch follows it;
\* seed then fails, and the rows of the batches before it stay in the table.
C2_FailureAborts ==
  /\ \A j \in DOMAIN RunCalls : RunCalls[j].batch = j - 1
  /\ \A j \in DOMAIN RunCalls :
       RunCalls[j].st = "err" =>
         /\ j = Len(RunCalls)
         /\ batch = j - 1
         /\ pc \in {"await", "failed"}
  /\ pc = "failed" =>
       /\ RunCalls # <<>>
       /\ RunCalls[Len(RunCalls)].st = "err"
       /\ Len(OkCalls) = Len(RunCalls) - 1
       /\ pending = <<>>
       /\ ~results[Len(results)].ok
       /\ Gained = SumN(OkCalls)
       /\ Valid => Gained = batch * batchSize

C2_Witness ==
  /\ pc = "failed"
  /\ batch = 1
  /\ Len(RunCalls) = 2
  /\ Gained = batchSize
  /\ batchSize > 0

\* C3: at most one insert is in flight, and only while seed waits for it;
\* the rows of batch b are generated only after the inserts of batches
\* 0..b-1 have all completed, and batch b is submitted after them.
C3_OneAtATime ==
  /\ Len(pending) <= 1
  /\ pending # <<>> => pc = "await"
  /\ pc \in {"loop", "fill"} =>
       /\ Len(RunCalls) = batch
       /\ \A j \in DOMAIN RunCalls : RunCalls[j].st = "ok" /\ RunCalls[j].batch = j - 1
  /\ pc = "await" =>
       /\ Len(RunCalls) = batch + 1
       /\ RunCalls[batch + 1].batch = batch
       /\ \A j \in 1..batch : RunCalls[j].st = "ok"

C3_Witness ==
  /\ pc = "fill"
  /\ batch = 1
  /\ i = 1
  /\ Len(OkCalls) = 1

\* C4: with positive totalRows and batchSize every batch submitted holds
\* exactly batchSize rows, and a fully successful run has added
\* totalBatches * batchSize rows: at least totalRows, at most batchSize - 1 more.
C4_FullBatches ==
  Valid =>
    /\ \A j \in DOMAIN RunCalls : RunCalls[j].n = batchSize
    /\ pc = "done" =>
         /\ Gained = totalBatches.v * batchSize
         /\ Gained >= totalRows
         /\ Gained - totalRows <= batchSize - 1

C4_Witness ==
  /\ Valid
  /\ pc = "done"
  /\ Len(RunCalls) = 2
  /\ Gained = totalRows + 1

C6_ZeroRows ==
  (totalRows = 0 /\ batchSize > 0) =>
    /\ pc \in {"start", "loop", "done"}
    /\ calls = <<>>
    /\ pending = <<>>
    /\ sink = EmptyBag
    /\ batch = 0
    /\ pc = "done" => results[Len(results)] = [ok |-> TRUE, added |-> 0]

C6_Witness ==
  /\ totalRows = 0
  /\ batchSize > 0
  /\ pc = "done"
  /\ run = 1

\* C7: every row generated, submitted or stored has product_id in 1..1000,
\* user_id in 1..100000, rating in 1..5, and its five fields set.
RowOk(r) ==
  /\ DOMAIN r = {"product_id", "user_id", "rating", "comment", "created_at"}
  /\ r.product_id \in 1..ProductIds
  /\ r.user_id >= 1 /\ r.user_id <= UserIds
  /\ r.rating \in 1..Ratings
  /\ r.comment \in STRING /\ r.comment # ""
  /\ r.created_at \in STRING /\ r.created_at # ""

C7_FieldRanges ==
  /\ \A r \in Range(rows) : RowOk(r)
  /\ \A p \in Range(pending) : \A r \in Range(p.rows) : RowOk(r)
  /\ \A r \in BagToSet(sink) : RowOk(r)

C7_Witness ==
  /\ pending # <<>>
  /\ \E r \in Range(Head(pending).rows) : r.product_id = ProductIds /\ r.user_id = 1
  /\ \E r \in Range(Head(pending).rows) : r.user_id = UserIds /\ r.rating = Ratings
  /\ \E r \in BagToSet(sink) : r.product_id = 1 /\ r.rating = 1

\* C8: when seed has run twice on the same table and both runs succeeded,
\* the second run added as many rows as the first and the table holds twice
\* what one run adds.
C8_NotIdempotent ==
  (Len(results) = 2 /\ results[1].ok /\ results[2].ok) =>
    /\ results[2].added = results[1].added
    /\ BagCardinality(sink) = 2 * results[1].added
    /\ Valid => results[1].added = totalBatches.v * batchSize

C8_Witness ==
  /\ Len(results) = 2
  /\ results[1].ok /\ results[2].ok
  /\ results[1].added = 4
  /\ BagCardinality(sink) = 8

\* C9: the progress lines of a run are numbered 1, 2, ... in order, one per
\* batch, each written only after that batch's insert succeeded; whenever
\* seed is not waiting on an insert, and so when it has failed, the last
\* progress line equals the number of batches committed.
C9_ProgressAfterCommit ==
  /\ \A j \in DOMAIN Progress : Progress[j].n = j /\ Progress[j].of = totalBatches
  /\ Len(Progress) <= Len(OkCalls)
  /\ Len(OkCalls) <= Len(Progress) + 1
  /\ pc # "await" => Len(Progress) = Len(OkCalls)
  /\ pc = "failed" => Len(Progress) = Len(RunCalls) - 1 /\ Len(Progress) = batch

C9_Witness ==
  /\ pc = "failed"
  /\ Len(RunCalls) = 2
  /\ Len(Progress) = 1
  /\ Progress[1].n = 1

\* C10: with a positive batchSize the buffer never holds more than batchSize
\* rows; every iteration fills a fresh buffer from empty, so no batch
\* submitted carries rows of an earlier one.
C10_BufferBounded ==
  batchSize > 0 =>
    /\ Len(rows) <= batchSize
    /\ pc = "fill" => Len(rows) = i
    /\ \A j \in DOMAIN calls : calls[j].n = batchSize
    /\ \A p \in Range(pending) : Len(p.rows) = batchSize

C10_Witness ==
  /\ pc = "fill"
  /\ batch = 2
  /\ i = 0
  /\ rows = <<>>
  /\ BagCardinality(sink) = 2 * batchSize
  /\ batchSize = 1

\* C11: up never touches table reviews; when it has completed,
\* reviews_partitioned exists with exactly the partitions p0..p3, p<i> with
\* modulus 4 and remainder i, the partitions together hold exactly the rows
\* of reviews, and every row is in exactly one partition, the one its
\* hashed product_id selects.
C11_UpPartitions ==
  /\ reviews = original
  /\ mpc = "up_done" =>
       /\ parent
       /\ DOMAIN parts = 0..3
       /\ \A t \in DOMAIN parts : parts[t].modulus = 4 /\ parts[t].remainder = t
       /\ \A m \in 0..3 : Cardinality({t \in DOMAIN parts : parts[t].remainder = m}) = 1
       /\ Partitioned = reviews
       /\ \A r \in reviews : Cardinality({t \in DOMAIN parts : r \in parts[t].rows}) = 1
       /\ \A t \in DOMAIN parts : \A r \in parts[t].rows : hash[r.product_id] % 4 = t

C11_Witness ==
  /\ mpc = "up_done"
  /\ Cardinality(reviews) = 2
  /\ parts[1].rows # {}
  /\ parts[3].rows # {}
  /\ began = [parent |-> FALSE, parts |-> {}]

\* The lines 'Seeding completed!' of the current invocation.
Completed == SelectSeq(out, LAMBDA l : l.run = run /\ l.msg = "Seeding completed!")

\* No insert has been rejected.
NoRejection == \A j \in DOMAIN calls : calls[j].st # "err"

\* C12 (safety): 'Seeding completed!' is written at most once per run, exactly
\* when seed has returned; with positive totalRows and batchSize it is
\* written only after ceil(totalRows / batchSize) inserts, all of them
\* successful, and never in a run in which an insert failed.
CompletionSound ==
  /\ Len(Completed) <= 1
  /\ (Len(Completed) = 1) = (pc = "done")
  /\ (\E j \in DOMAIN RunCalls : RunCalls[j].st = "err") => Len(Completed) = 0
  /\ (Valid /\ Len(Completed) = 1) =>
       /\ Len(RunCalls) = LeastBatches
       /\ Len(OkCalls) = LeastBatches
       /\ pending = <<>>

\* C12: the completion line is sound in every state, and if no insert is
\* ever rejected, every run of seed with positive totalRows and batchSize
\* goes on to write it.
C12_Terminates ==
  /\ []CompletionSound
  /\ ([]NoRejection) => []((Valid /\ pc = "start") => <>(pc = "done"))

C12_Witness ==
  /\ Valid
  /\ pc = "done"
  /\ run = 2
  /\ NoRejection
  /\ Len(OkCalls) = 2
  /\ Len(Completed) = 1

\* C13: down never touches table reviews and never raises for a missing
\* table; while it runs, the partitions below its loop index are gone; when
\* it has completed, neither a partition nor reviews_partitioned exists,
\* whatever part of the schema an earlier up had left.
C13_DownUndoesUp ==
  /\ reviews = original
  /\ mpc = "down_failed" => merr = "external"
  /\ mpc = "down_part" =>
       /\ \A t \in DOMAIN parts : t >= mi
       /\ parent = began.parent
  /\ mpc = "down_done" =>
       /\ ~parent
       /\ DOMAIN parts = {}
       /\ merr = "none"

C13_Witness ==
  /\ mpc = "down_done"
  /\ began = [parent |-> TRUE, parts |-> {0, 1}]
  /\ reviews # {}
  /\ ~parent

====
